---- MODULE Spec2Model ----
(***************************************************************************)
(* Model of prefect_data_loader.py: the flow c3dc_hub_data_loader, the     *)
(* task create_prop_file, load_data and Config.                            *)
(*                                                                         *)
(* Text that the code takes apart or concatenates (folder names, tags,     *)
(* node-type names, S3 locations) is a sequence of one-character strings;  *)
(* a character beyond Latin-1 is the element "U+" and its four hex digits. *)
(* Text the code only passes along (dictionary keys, fixed file names) is  *)
(* an ordinary string.                                                     *)
(***************************************************************************)
EXTENDS Integers, Sequences, FiniteSets, TLC

(* ------------------------------ bounds --------------------------------- *)

\* largest number of node-types in a model schema
MaxNodes == 2
\* largest number of trailing "/" on a folder-like input
MaxSlashes == 1

(* --------------------------- text helpers ------------------------------ *)

\* the value None, as a sequence no text can equal (its element is not a character)
None == << "<None>" >>

\* the characters str.strip() removes (those for which str.isspace() holds):
\* U+0009-000D, U+001C-001F, U+0020, U+0085, U+00A0, U+1680, U+2000-200A,
\* U+2028, U+2029, U+202F, U+205F and U+3000. A character other than a
\* printable ASCII character, tab, line feed, form feed or carriage return is
\* written as the one element "U+" followed by its four hexadecimal digits.
Whitespace ==
    {"\t", "\n", "U+000B", "\f", "\r", "U+001C", "U+001D", "U+001E", "U+001F", " ",
     "U+0085", "U+00A0",
     "U+1680", "U+2000", "U+2001", "U+2002", "U+2003", "U+2004", "U+2005", "U+2006",
     "U+2007", "U+2008", "U+2009", "U+200A", "U+2028", "U+2029", "U+202F", "U+205F",
     "U+3000"}

EndsWith(s, c) == Len(s) > 0 /\ s[Len(s)] = c

RECURSIVE StripLeft(_)
StripLeft(s) ==
    IF s # <<>> /\ Head(s) \in Whitespace THEN StripLeft(Tail(s)) ELSE s

RECURSIVE StripRight(_)
StripRight(s) ==
    IF s # <<>> /\ s[Len(s)] \in Whitespace
    THEN StripRight(SubSeq(s, 1, Len(s) - 1))
    ELSE s

\* str.strip()
Strip(s) == StripRight(StripLeft(s))

\* str.split(sep): the list of segments between occurrences of sep
RECURSIVE SplitFrom(_, _, _)
SplitFrom(s, sep, cur) ==
    IF s = <<>> THEN << cur >>
    ELSE IF Head(s) = sep
         THEN << cur >> \o SplitFrom(Tail(s), sep, <<>>)
         ELSE SplitFrom(Tail(s), sep, Append(cur, Head(s)))

Split(s, sep) == SplitFrom(s, sep, <<>>)

\* sep.join(parts)
RECURSIVE Join(_, _)
Join(parts, sep) ==
    IF parts = <<>> THEN <<>>
    ELSE IF Len(parts) = 1 THEN parts[1]
         ELSE parts[1] \o << sep >> \o Join(Tail(parts), sep)

Contains(s, c) == \E i \in 1..Len(s) : s[i] = c

RECURSIVE Repeat(_, _)
Repeat(c, n) == IF n = 0 THEN <<>> ELSE << c >> \o Repeat(c, n - 1)

(* ----------------------- create_prop_file (pure part) ------------------ *)

\* The pluralizer is inflect.engine().plural, called at lines 84 and 88, in its
\* default mode, for a word of lower-case letters
\* without spaces, hyphens or apostrophes. Its steps are kept in inflect's
\* order: special adjectives, special verbs, then the noun rules.

\* what a step gives when it does not apply
NoPlural == << "<False>" >>

\* what plural does with the empty word depends on the inflect that is
\* installed (line 16 imports whichever it is): inflect 7 rejects it with
\* TypeCheckError, inflect 6 with ValidationError, earlier ones return it
TypeCheckError == << "<TypeCheckError>" >>

ValidationError == << "<ValidationError>" >>

EmptyWordOutcomes == { <<>>, TypeCheckError, ValidationError }

\* what '"_" in node' raises at line 82 for a node that is not text
TypeError == << "<TypeError>" >>

\* the ways the loop of lines 81-90 ends early, and the exception of each
PluralErrors == { TypeCheckError, ValidationError, TypeError }

ErrorName(e) ==
    CASE e = TypeCheckError -> "TypeCheckError"
      [] e = ValidationError -> "ValidationError"
      [] e = TypeError -> "TypeError"

\* a key of the "Nodes" mapping that yaml.safe_load gives as a value that is
\* not text: the key written yes (or on, true) is loaded as True
YamlTrue == << "<True>" >>

NonTextKeys == { YamlTrue }

LowerCase == {"a","b","c","d","e","f","g","h","i","j","k","l","m",
              "n","o","p","q","r","s","t","u","v","w","x","y","z"}

Vowels == {"a", "e", "i", "o", "u"}

\* word[-k:]
Last(w, k) == SubSeq(w, IF Len(w) > k THEN Len(w) - k + 1 ELSE 1, Len(w))

\* word[:-k]
DropLast(w, k) == IF Len(w) > k THEN SubSeq(w, 1, Len(w) - k) ELSE <<>>

\* word[-k:] in v, for one of the sizes k of the list
HasSuffixIn(w, list) == \E k \in 1..Len(w) : Last(w, k) \in list

\* pl_adj_special and pl_adj_poss
pl_adj ==
    (<<"a">> :> <<"s","o","m","e">>)
    @@ (<<"a","n">> :> <<"s","o","m","e">>)
    @@ (<<"h","e","r">> :> <<"t","h","e","i","r">>)
    @@ (<<"h","i","s">> :> <<"t","h","e","i","r">>)
    @@ (<<"i","t","s">> :> <<"t","h","e","i","r">>)
    @@ (<<"m","y">> :> <<"o","u","r">>)
    @@ (<<"t","h","a","t">> :> <<"t","h","o","s","e">>)
    @@ (<<"t","h","e","i","r">> :> <<"t","h","e","i","r">>)
    @@ (<<"t","h","i","s">> :> <<"t","h","e","s","e">>)
    @@ (<<"y","o","u","r">> :> <<"y","o","u","r">>)

\* irregular present tenses, to their plural
plverb_irregular_pres ==
    (<<"a","m">> :> <<"a","r","e">>)
    @@ (<<"a","r","e">> :> <<"a","r","e">>)
    @@ (<<"d","o">> :> <<"d","o">>)
    @@ (<<"d","o","e","s">> :> <<"d","o">>)
    @@ (<<"h","a","s">> :> <<"h","a","v","e">>)
    @@ (<<"h","a","v","e">> :> <<"h","a","v","e">>)
    @@ (<<"i","s">> :> <<"a","r","e">>)
    @@ (<<"w","a","s">> :> <<"w","e","r","e">>)
    @@ (<<"w","e","r","e">> :> <<"w","e","r","e">>)

\* irregular verbs that do not change
plverb_irregular_non_pres ==
    { <<"a","t","e">>, <<"c","o","u","l","d">>, <<"d","i","d">>, <<"f","o","u","g","h","t">>,
      <<"g","a","v","e">>, <<"h","a","d">>, <<"m","a","d","e">>, <<"o","u","g","h","t">>,
      <<"p","u","t">>, <<"s","a","n","k">>, <<"s","h","a","l","l">>, <<"s","h","o","u","l","d">>,
      <<"s","o","u","g","h","t">>, <<"s","p","e","n","t">> }

\* singular nouns ending in s
pl_sb_singular_s_complete ==
    { <<"a","c","r","o","p","o","l","i","s">>, <<"a","e","g","i","s">>, <<"a","l","i","a","s">>,
      <<"a","s","b","e","s","t","o","s">>, <<"b","a","t","h","o","s">>, <<"b","i","a","s">>,
      <<"b","r","o","n","c","h","i","t","i","s">>, <<"b","u","r","s","i","t","i","s">>,
      <<"c","a","d","d","i","s">>, <<"c","a","n","n","a","b","i","s">>, <<"c","a","n","v","a","s">>,
      <<"c","h","a","o","s">>, <<"c","h","r","y","s","a","l","i","s">>,
      <<"c","l","i","t","o","r","i","s">>, <<"c","o","s","m","o","s">>, <<"d","a","i","s">>,
      <<"d","i","g","i","t","a","l","i","s">>, <<"e","p","h","e","m","e","r","i","s">>,
      <<"e","p","i","d","e","r","m","i","s">>, <<"e","p","i","d","i","d","y","m","i","s">>,
      <<"e","t","h","o","s">>, <<"e","y","a","s">>, <<"g","a","s">>, <<"g","l","o","t","t","i","s">>,
      <<"h","u","b","r","i","s">>, <<"i","b","i","s">>, <<"i","r","i","s">>, <<"l","e","n","s">>,
      <<"m","a","n","t","i","s">>, <<"m","a","r","q","u","i","s">>,
      <<"m","e","t","r","o","p","o","l","i","s">>, <<"p","a","t","h","o","s">>,
      <<"p","e","l","v","i","s">>, <<"p","o","l","i","s">>,
      <<"r","h","i","n","o","c","e","r","o","s">>, <<"s","a","s","s","a","f","r","a","s">>,
      <<"t","r","e","l","l","i","s">> }

\* endings of singular nouns ending in s
pl_sb_singular_s_endings ==
    { <<"i","t","i","s">>, <<"s","s">>, <<"u","s">> }

\* nouns in s that do not change
pl_sb_uninflected_s_complete ==
    { <<"b","r","e","e","c","h","e","s">>, <<"b","r","i","t","c","h","e","s">>,
      <<"c","a","n","t","u","s">>, <<"c","h","a","s","s","i","s">>,
      <<"c","l","i","p","p","e","r","s">>, <<"c","o","i","t","u","s">>,
      <<"c","o","n","t","r","e","t","e","m","p","s">>, <<"c","o","r","p","s">>,
      <<"d","e","b","r","i","s">>, <<"d","i","a","b","e","t","e","s">>,
      <<"g","a","l","l","o","w","s">>, <<"h","a","g","g","i","s">>,
      <<"h","e","a","d","q","u","a","r","t","e","r","s">>, <<"h","e","r","p","e","s">>,
      <<"h","i","j","i","n","k","s">>, <<"i","n","n","i","n","g","s">>,
      <<"j","a","c","k","a","n","a","p","e","s">>, <<"m","e","w","s">>, <<"m","u","m","p","s">>,
      <<"n","e","w","s">>, <<"n","e","x","u","s">>, <<"p","a","j","a","m","a","s">>,
      <<"p","i","n","c","e","r","s">>, <<"p","l","i","e","r","s">>,
      <<"p","r","o","c","e","e","d","i","n","g","s">>, <<"p","y","j","a","m","a","s">>,
      <<"r","a","b","i","e","s">>, <<"s","c","i","s","s","o","r","s">>, <<"s","e","r","i","e","s">>,
      <<"s","h","e","a","r","s">>, <<"s","i","e","m","e","n","s">>, <<"s","p","e","c","i","e","s">>,
      <<"s","u","b","s","p","e","c","i","e","s">>, <<"t","e","s","t","e","s">>,
      <<"t","r","o","u","s","e","r","s">> }

\* nouns that do not change
pl_sb_uninflected_complete ==
    { <<"b","r","e","a","m">>, <<"b","r","e","e","c","h","e","s">>,
      <<"b","r","i","t","c","h","e","s">>, <<"c","a","n","t","u","s">>, <<"c","a","r","p">>,
      <<"c","h","a","s","s","i","s">>, <<"c","l","i","p","p","e","r","s">>, <<"c","o","d">>,
      <<"c","o","i","t","u","s">>, <<"c","o","n","t","r","e","t","e","m","p","s">>,
      <<"c","o","r","p","s">>, <<"d","e","b","r","i","s">>, <<"d","i","a","b","e","t","e","s">>,
      <<"d","j","i","n","n">>, <<"f","l","o","u","n","d","e","r">>, <<"g","a","l","l","o","w","s">>,
      <<"g","r","a","f","f","i","t","i">>, <<"h","a","g","g","i","s">>,
      <<"h","e","a","d","q","u","a","r","t","e","r","s">>, <<"h","e","r","p","e","s">>,
      <<"h","e","r","t","z">>, <<"h","i","j","i","n","k","s">>, <<"i","n","n","i","n","g","s">>,
      <<"j","a","c","k","a","n","a","p","e","s">>, <<"m","a","c","k","e","r","e","l">>,
      <<"m","e","w","s">>, <<"m","o","o","s","e">>, <<"m","u","m","p","s">>, <<"n","e","w","s">>,
      <<"n","e","x","u","s">>, <<"o","f","f","s","p","r","i","n","g">>,
      <<"p","a","j","a","m","a","s">>, <<"p","e","n","c","e">>, <<"p","i","n","c","e","r","s">>,
      <<"p","l","i","e","r","s">>, <<"p","r","o","c","e","e","d","i","n","g","s">>,
      <<"p","y","j","a","m","a","s">>, <<"q","u","i","d">>, <<"r","a","b","i","e","s">>,
      <<"s","a","l","m","o","n">>, <<"s","a","m","u","r","i">>, <<"s","c","i","s","s","o","r","s">>,
      <<"s","e","r","i","e","s">>, <<"s","h","e","a","r","s">>, <<"s","i","e","m","e","n","s">>,
      <<"s","p","e","c","i","e","s">>, <<"s","u","b","s","p","e","c","i","e","s">>,
      <<"t","e","s","t","e","s">>, <<"t","r","o","u","s","e","r","s">>, <<"t","r","o","u","t">>,
      <<"t","u","n","a">>, <<"w","h","i","t","i","n","g">> }

\* endings of nouns that do not change
pl_sb_uninflected_endings ==
    { <<"b","u","t","t","e","r">>, <<"c","a","s","h">>, <<"c","r","a","f","t">>, <<"d","e","e","r">>,
      <<"f","i","s","h">>, <<"f","u","r","n","i","t","u","r","e">>,
      <<"i","n","f","o","r","m","a","t","i","o","n">>, <<"l","e","s","e">>,
      <<"m","e","a","s","l","e","s">>, <<"m","e","s","e">>, <<"n","e","s","e">>, <<"o","i","s">>,
      <<"p","o","x">>, <<"r","e","s","e">>, <<"s","h","e","e","p">> }

\* endings in s of nouns that do not change
pl_sb_uninflected_s_endings ==
    { <<"m","e","a","s","l","e","s">>, <<"o","i","s">> }

\* irregular nouns ending in s
pl_sb_irregular_s ==
    (<<"a","t","l","a","s">> :> <<"a","t","l","a","s","e","s">>)
    @@ (<<"c","o","r","p","u","s">> :> <<"c","o","r","p","u","s","e","s">>)
    @@ (<<"g","e","n","u","s">> :> <<"g","e","n","e","r","a">>)
    @@ (<<"m","y","t","h","o","s">> :> <<"m","y","t","h","o","i">>)
    @@ (<<"o","p","u","s">> :> <<"o","p","u","s","e","s">>)
    @@ (<<"p","e","n","i","s">> :> <<"p","e","n","i","s","e","s">>)
    @@ (<<"t","e","s","t","i","s">> :> <<"t","e","s","t","e","s">>)
    @@ (<<"y","e","s">> :> <<"y","e","s","e","s">>)

\* irregular nouns (the first, non-classical, plural of each)
pl_sb_irregular ==
    (<<"a","t","l","a","s">> :> <<"a","t","l","a","s","e","s">>)
    @@ (<<"a","t","m","a","n">> :> <<"a","t","m","a","s">>)
    @@ (<<"b","e","e","f">> :> <<"b","e","e","f","s">>)
    @@ (<<"b","r","o","t","h","e","r">> :> <<"b","r","o","t","h","e","r","s">>)
    @@ (<<"c","a","r","m","e","n">> :> <<"c","a","r","m","i","n","a">>)
    @@ (<<"c","h","i","l","d">> :> <<"c","h","i","l","d","r","e","n">>)
    @@ (<<"c","h","i","l","i">> :> <<"c","h","i","l","i","s">>)
    @@ (<<"c","o","r","p","u","s">> :> <<"c","o","r","p","u","s","e","s">>)
    @@ (<<"c","o","w">> :> <<"c","o","w","s">>)
    @@ (<<"f","l","a","t","f","o","o","t">> :> <<"f","l","a","t","f","o","o","t","s">>)
    @@ (<<"g","a","n","g","l","i","o","n">> :> <<"g","a","n","g","l","i","o","n","s">>)
    @@ (<<"g","e","n","i","e">> :> <<"g","e","n","i","e","s">>)
    @@ (<<"g","e","n","u","s">> :> <<"g","e","n","e","r","a">>)
    @@ (<<"g","r","a","f","f","i","t","o">> :> <<"g","r","a","f","f","i","t","i">>)
    @@ (<<"h","o","o","f">> :> <<"h","o","o","f","s">>)
    @@ (<<"i","n","f","i","n","i","t","y">> :> <<"i","n","f","i","n","i","t","i","e","s">>)
    @@ (<<"j","e","r","r","y">> :> <<"j","e","r","r","i","e","s">>)
    @@ (<<"l","o","a","f">> :> <<"l","o","a","v","e","s">>)
    @@ (<<"l","o","r","e">> :> <<"l","o","r","e","s">>)
    @@ (<<"l","o","w","l","i","f","e">> :> <<"l","o","w","l","i","f","e","s">>)
    @@ (<<"m","a","r","y">> :> <<"m","a","r","i","e","s">>)
    @@ (<<"m","o","n","e","y">> :> <<"m","o","n","i","e","s">>)
    @@ (<<"m","o","n","g","o","o","s","e">> :> <<"m","o","n","g","o","o","s","e","s">>)
    @@ (<<"m","y","t","h","o","s">> :> <<"m","y","t","h","o","i">>)
    @@ (<<"n","u","m","e","n">> :> <<"n","u","m","i","n","a">>)
    @@ (<<"o","c","c","i","p","u","t">> :> <<"o","c","c","i","p","u","t","s">>)
    @@ (<<"o","c","t","o","p","u","s">> :> <<"o","c","t","o","p","u","s","e","s">>)
    @@ (<<"o","p","u","s">> :> <<"o","p","u","s","e","s">>)
    @@ (<<"o","x">> :> <<"o","x","e","n">>)
    @@ (<<"p","e","n","i","s">> :> <<"p","e","n","i","s","e","s">>)
    @@ (<<"r","o","m">> :> <<"r","o","m","a">>)
    @@ (<<"r","o","m","a","n","y">> :> <<"r","o","m","a","n","i","e","s">>)
    @@ (<<"s","a","b","e","r","t","o","o","t","h">> :> <<"s","a","b","e","r","t","o","o","t","h","s">>)
    @@ (<<"s","a","b","r","e","t","o","o","t","h">> :> <<"s","a","b","r","e","t","o","o","t","h","s">>)
    @@ (<<"t","a","l","o","u","s","e">> :> <<"t","a","l","o","u","s","e","s">>)
    @@ (<<"t","e","n","d","e","r","f","o","o","t">> :> <<"t","e","n","d","e","r","f","o","o","t","s">>)
    @@ (<<"t","e","s","t","i","s">> :> <<"t","e","s","t","e","s">>)
    @@ (<<"t","h","i","e","f">> :> <<"t","h","i","e","f","s">>)
    @@ (<<"t","r","i","l","b","y">> :> <<"t","r","i","l","b","y","s">>)
    @@ (<<"t","u","r","f">> :> <<"t","u","r","f","s">>)
    @@ (<<"y","e","s">> :> <<"y","e","s","e","s">>)

\* nominative and possessive pronouns
pl_pron_nom ==
    (<<"h","e">> :> <<"t","h","e","y">>)
    @@ (<<"h","e","r","s">> :> <<"t","h","e","i","r","s">>)
    @@ (<<"h","e","r","s","e","l","f">> :> <<"t","h","e","m","s","e","l","v","e","s">>)
    @@ (<<"h","i","m","s","e","l","f">> :> <<"t","h","e","m","s","e","l","v","e","s">>)
    @@ (<<"h","i","s">> :> <<"t","h","e","i","r","s">>)
    @@ (<<"i">> :> <<"w","e">>)
    @@ (<<"i","t">> :> <<"t","h","e","y">>)
    @@ (<<"i","t","s">> :> <<"t","h","e","i","r","s">>)
    @@ (<<"i","t","s","e","l","f">> :> <<"t","h","e","m","s","e","l","v","e","s">>)
    @@ (<<"m","i","n","e">> :> <<"o","u","r","s">>)
    @@ (<<"m","y","s","e","l","f">> :> <<"o","u","r","s","e","l","v","e","s">>)
    @@ (<<"s","h","e">> :> <<"t","h","e","y">>)
    @@ (<<"t","h","e","i","r","s">> :> <<"t","h","e","i","r","s">>)
    @@ (<<"t","h","e","m","s","e","l","f">> :> <<"t","h","e","m","s","e","l","v","e","s">>)
    @@ (<<"t","h","e","y">> :> <<"t","h","e","y">>)
    @@ (<<"y","o","u">> :> <<"y","o","u">>)
    @@ (<<"y","o","u","r","s">> :> <<"y","o","u","r","s">>)
    @@ (<<"y","o","u","r","s","e","l","f">> :> <<"y","o","u","r","s","e","l","v","e","s">>)

\* accusative pronouns
pl_pron_acc ==
    (<<"h","e","r">> :> <<"t","h","e","m">>)
    @@ (<<"h","e","r","s","e","l","f">> :> <<"t","h","e","m","s","e","l","v","e","s">>)
    @@ (<<"h","i","m">> :> <<"t","h","e","m">>)
    @@ (<<"h","i","m","s","e","l","f">> :> <<"t","h","e","m","s","e","l","v","e","s">>)
    @@ (<<"i","t">> :> <<"t","h","e","m">>)
    @@ (<<"i","t","s","e","l","f">> :> <<"t","h","e","m","s","e","l","v","e","s">>)
    @@ (<<"m","e">> :> <<"u","s">>)
    @@ (<<"m","y","s","e","l","f">> :> <<"o","u","r","s","e","l","v","e","s">>)
    @@ (<<"t","h","e","m">> :> <<"t","h","e","m">>)
    @@ (<<"t","h","e","m","s","e","l","f">> :> <<"t","h","e","m","s","e","l","v","e","s">>)
    @@ (<<"y","o","u">> :> <<"y","o","u">>)
    @@ (<<"y","o","u","r","s","e","l","f">> :> <<"y","o","u","r","s","e","l","v","e","s">>)

\* -man nouns that take s
pl_sb_U_man_mans ==
    { <<"a","t","a","m","a","n">>, <<"c","a","i","m","a","n">>, <<"c","a","y","m","a","n">>,
      <<"c","e","r","i","m","a","n">>, <<"d","e","s","m","a","n">>, <<"d","o","l","m","a","n">>,
      <<"f","a","r","m","a","n">>, <<"h","a","r","m","a","n">>, <<"h","e","t","m","a","n">>,
      <<"h","u","m","a","n">>, <<"l","e","m","a","n">>, <<"o","t","t","o","m","a","n">>,
      <<"s","h","a","m","a","n">>, <<"t","a","l","i","s","m","a","n">> }

\* -louse nouns that become -lice
pl_sb_U_louse_lice ==
    { <<"b","o","o","k","l","o","u","s","e">>, <<"g","r","a","p","e","l","o","u","s","e">>,
      <<"l","o","u","s","e">>, <<"w","o","o","d","l","o","u","s","e">> }

\* -ch nouns that take s
pl_sb_U_ch_chs ==
    { <<"c","z","e","c","h">>, <<"e","u","n","u","c","h">>, <<"s","t","o","m","a","c","h">> }

\* -ex nouns that become -ices
pl_sb_U_ex_ices ==
    { <<"c","o","d","e","x">>, <<"m","u","r","e","x">>, <<"s","i","l","e","x">> }

\* -ix nouns that become -ices
pl_sb_U_ix_ices ==
    { <<"h","e","l","i","x">>, <<"r","a","d","i","x">> }

\* -um nouns that become -a
pl_sb_U_um_a ==
    { <<"a","g","e","n","d","u","m">>, <<"b","a","c","t","e","r","i","u","m">>,
      <<"c","a","n","d","e","l","a","b","r","u","m">>, <<"d","a","t","u","m">>,
      <<"d","e","s","i","d","e","r","a","t","u","m">>, <<"e","r","r","a","t","u","m">>,
      <<"e","x","t","r","e","m","u","m">>, <<"o","v","u","m">>, <<"s","t","r","a","t","u","m">> }

\* -us nouns that become -i
pl_sb_U_us_i ==
    { <<"a","l","u","m","n","u","s">>, <<"a","l","v","e","o","l","u","s">>,
      <<"b","a","c","i","l","l","u","s">>, <<"b","r","o","n","c","h","u","s">>,
      <<"l","o","c","u","s">>, <<"m","e","n","i","s","c","u","s">>, <<"n","u","c","l","e","u","s">>,
      <<"s","a","r","c","o","p","h","a","g","u","s">>, <<"s","t","i","m","u","l","u","s">> }

\* -on nouns that become -a
pl_sb_U_on_a ==
    { <<"a","p","h","e","l","i","o","n">>, <<"a","s","y","n","d","e","t","o","n">>,
      <<"c","r","i","t","e","r","i","o","n">>, <<"h","y","p","e","r","b","a","t","o","n">>,
      <<"n","o","u","m","e","n","o","n">>, <<"o","r","g","a","n","o","n">>,
      <<"p","e","r","i","h","e","l","i","o","n">>, <<"p","h","e","n","o","m","e","n","o","n">>,
      <<"p","r","o","l","e","g","o","m","e","n","o","n">> }

\* -a nouns that become -ae
pl_sb_U_a_ae ==
    { <<"a","l","g","a">>, <<"a","l","u","m","n","a">>, <<"p","e","r","s","o","n","a">>,
      <<"v","e","r","t","e","b","r","a">>, <<"v","i","t","a">> }

\* -z nouns that take es
pl_sb_z_zes ==
    { <<"q","u","a","r","t","z">>, <<"t","o","p","a","z">> }

\* -ze nouns that take s
pl_sb_ze_zes ==
    { <<"s","n","o","o","z","e">> }

\* -oes verbs that lose only the s
pl_v_oes_oe ==
    { <<"c","a","n","o","e","s">>, <<"f","l","o","e","s">>, <<"o","b","o","e","s">>,
      <<"r","o","e","s">>, <<"t","h","r","o","e","s">>, <<"w","o","e","s">> }

\* -o nouns that take s, whole words
pl_sb_U_o_os_complete ==
    { <<"a","d","o">>, <<"o","t","o">> }

\* -o nouns that take s, as endings
pl_sb_U_o_os_endings ==
    { <<"a","f","i","c","i","o","n","a","d","o">>, <<"a","g","g","r","o">>,
      <<"a","l","b","i","n","o">>, <<"a","l","l","e","g","r","o">>, <<"a","l","t","o">>,
      <<"a","m","m","o">>, <<"a","r","c","h","i","p","e","l","a","g","o">>,
      <<"a","r","m","a","d","i","l","l","o">>, <<"a","u","t","o">>, <<"a","v","o","c","a","d","o">>,
      <<"b","a","s","s","o">>, <<"b","i","m","b","o">>, <<"b","i","n","g","o">>,
      <<"b","o","l","e","r","o">>, <<"b","o","n","g","o">>, <<"b","u","r","r","o">>,
      <<"c","a","n","t","o">>, <<"c","a","p","p","u","c","c","i","n","o">>,
      <<"c","a","s","i","n","o">>, <<"c","e","l","l","o">>, <<"c","i","l","a","n","t","r","o">>,
      <<"c","o","c","h","i","t","o">>, <<"c","o","c","o">>, <<"c","o","m","m","a","n","d","o">>,
      <<"c","o","n","c","e","r","t","i","n","o">>, <<"c","o","n","t","a","n","g","o">>,
      <<"c","o","n","t","r","a","l","t","o">>, <<"c","r","e","d","o">>,
      <<"c","r","e","s","c","e","n","d","o">>, <<"c","y","a","n","o">>, <<"d","e","m","o">>,
      <<"d","i","t","t","o">>, <<"d","y","n","a","m","o">>, <<"e","m","b","r","y","o">>,
      <<"e","s","p","r","e","s","s","o">>, <<"e","u","r","o">>, <<"f","a","l","s","e","t","t","o">>,
      <<"f","i","a","s","c","o">>, <<"f","l","a","m","e","n","c","o">>,
      <<"f","u","r","i","o","s","o">>, <<"g","e","n","e","r","a","l","i","s","s","i","m","o">>,
      <<"g","h","e","t","t","o">>, <<"g","i","g","o","l","o">>, <<"g","i","z","m","o">>,
      <<"g","r","i","n","g","o">>, <<"g","u","a","n","o">>, <<"g","u","m","b","o">>,
      <<"g","y","r","o">>, <<"h","a","i","r","d","o">>, <<"h","i","p","p","o">>,
      <<"i","m","p","e","t","i","g","o">>, <<"i","n","f","e","r","n","o">>, <<"i","n","f","o">>,
      <<"i","n","t","e","r","m","e","z","z","o">>, <<"i","n","t","e","r","t","r","i","g","o">>,
      <<"j","u","m","b","o">>, <<"j","u","n","t","o">>, <<"k","i","l","o">>,
      <<"l","i","b","e","r","o">>, <<"l","i","b","i","d","o">>, <<"l","i","b","r","e","t","t","o">>,
      <<"l","i","d","o">>, <<"l","i","m","b","o">>, <<"l","i","m","o">>, <<"l","i","n","e","n","o">>,
      <<"l","i","n","g","o">>, <<"l","i","n","o">>, <<"l","i","v","e","d","o">>, <<"l","o","c","o">>,
      <<"l","o","g","o">>, <<"l","u","m","b","a","g","o">>, <<"m","a","c","h","o">>,
      <<"m","a","c","r","o">>, <<"m","a","f","i","o","s","o">>, <<"m","a","g","n","e","t","o">>,
      <<"m","a","g","n","i","f","i","c","o">>, <<"m","a","n","i","f","e","s","t","o">>,
      <<"m","e","d","i","c","o">>, <<"m","e","m","o">>, <<"m","e","t","r","o">>,
      <<"m","i","c","r","o">>, <<"m","o","n","o">>, <<"m","y","o">>,
      <<"n","e","u","t","r","i","n","o">>, <<"o","c","t","a","v","o">>,
      <<"o","r","e","g","a","n","o">>, <<"p","a","n","t","o">>, <<"p","e","d","a","l","o">>,
      <<"p","h","o","t","o">>, <<"p","i","a","n","o">>, <<"p","i","m","e","n","t","o">>,
      <<"p","i","n","t","o">>, <<"p","l","e","c","o">>, <<"p","o","g","o">>, <<"p","o","l","o">>,
      <<"p","o","n","c","h","o">>, <<"p","r","o">>, <<"p","s","y","c","h","o">>,
      <<"p","u","e","b","l","o">>, <<"q","u","a","r","t","o">>, <<"r","e","p","o">>,
      <<"r","h","i","n","o">>, <<"r","i","s","o","t","t","o">>, <<"r","o","c","o","c","o">>,
      <<"r","o","n","d","o">>, <<"s","a","d","d","o">>, <<"s","a","g","o">>, <<"s","a","l","v","o">>,
      <<"s","c","h","e","r","z","a","n","d","o">>, <<"s","c","h","e","r","z","o">>,
      <<"s","i","l","o">>, <<"s","i","r","o","c","c","o">>, <<"s","o","l","o">>,
      <<"s","o","m","b","r","e","r","o">>, <<"s","o","p","r","a","n","o">>,
      <<"s","t","a","c","c","a","t","o">>, <<"s","t","e","r","n","o">>, <<"s","t","u","c","c","o">>,
      <<"s","t","y","l","o">>, <<"s","u","m","o">>, <<"t","e","c","h","n","o">>,
      <<"t","e","m","p","o">>, <<"t","e","r","r","a","z","z","o">>, <<"t","e","s","t","u","d","o">>,
      <<"t","i","m","p","a","n","o">>, <<"t","i","r","o">>, <<"t","o","b","a","c","c","o">>,
      <<"t","o","r","e","r","o">>, <<"t","o","r","s","o">>, <<"t","r","e","m","o","l","o">>,
      <<"t","y","p","o">>, <<"t","y","r","o">>, <<"u","f","o">>, <<"v","a","q","u","e","r","o">>,
      <<"v","e","r","m","i","c","e","l","l","o">>, <<"v","e","r","s","o">>,
      <<"v","i","b","r","a","t","o">>, <<"v","i","o","l","o","n","c","e","l","l","o">>,
      <<"v","i","r","t","u","o","s","o">>, <<"w","e","i","r","d","o">>, <<"z","e","r","o">> }

\* _pl_special_adjective
pl_special_adjective(w) == IF w \in DOMAIN pl_adj THEN pl_adj[w] ELSE NoPlural

\* PLVERB_SPECIAL_S_RE: words in s that are nouns, not verbs
plverb_special_s(w) ==
    \/ w \in pl_sb_singular_s_complete
    \/ HasSuffixIn(w, pl_sb_singular_s_endings)
    \/ w \in pl_sb_uninflected_s_complete
    \/ HasSuffixIn(w, pl_sb_uninflected_s_endings)
    \/ w \in DOMAIN pl_sb_irregular_s
    \/ (Len(w) >= 3 /\ Last(w, 3) \in {<<"c","i","s">>, <<"s","i","s">>, <<"x","i","s">>})
    \/ (Len(w) >= 4 /\ Last(w, 4) = <<"c","e","p","s">>)

\* _pl_special_verb: a third-person verb loses its (e)s
pl_special_verb(w) ==
    IF w \in DOMAIN plverb_irregular_pres THEN plverb_irregular_pres[w]
    ELSE IF w \in plverb_irregular_non_pres THEN w
    ELSE IF plverb_special_s(w) THEN NoPlural
    ELSE IF w = <<"q","u","i","z","z","e","s">> THEN <<"q","u","i","z">>
    ELSE IF Last(w, 4) \in {<<"c","h","e","s">>, <<"s","h","e","s">>, <<"z","z","e","s">>, <<"s","s","e","s">>} \/ Last(w, 3) = <<"x","e","s">>
         THEN DropLast(w, 2)
    ELSE IF Last(w, 3) = <<"i","e","s">> /\ Len(w) > 3 THEN DropLast(w, 3) \o <<"y">>
    ELSE IF w \in pl_v_oes_oe \/ Last(w, 4) \in {<<"h","o","e","s">>, <<"t","o","e","s">>} \/ Last(w, 5) = <<"s","h","o","e","s">>
         THEN DropLast(w, 1)
    ELSE IF Last(w, 3) = <<"o","e","s">> /\ Len(w) > 3 THEN DropLast(w, 2)
    ELSE IF Len(w) >= 2 /\ w[Len(w)] = "s" /\ w[Len(w) - 1] # "s" THEN DropLast(w, 1)
    ELSE NoPlural

\* _plnoun
plnoun(w) ==
    LET n == Len(w)
        prev == IF n >= 2 THEN w[n - 1] ELSE ""
    IN  \* uninflected nouns
        IF w \in pl_sb_uninflected_complete THEN w
        ELSE IF HasSuffixIn(w, pl_sb_uninflected_endings) THEN w
        \* pronouns
        ELSE IF w \in DOMAIN pl_pron_nom THEN pl_pron_nom[w]
        ELSE IF w \in DOMAIN pl_pron_acc THEN pl_pron_acc[w]
        \* isolated irregular plurals
        ELSE IF w \in DOMAIN pl_sb_irregular THEN pl_sb_irregular[w]
        ELSE IF Last(w, 3) = <<"q","u","y">> THEN DropLast(w, 1) \o <<"i","e","s">>
        ELSE IF Last(w, 6) = <<"p","e","r","s","o","n">> THEN DropLast(w, 4) \o <<"o","p","l","e">>
        \* families of irregular plurals
        ELSE IF Last(w, 3) = <<"m","a","n">>
             THEN IF HasSuffixIn(w, pl_sb_U_man_mans) THEN w \o <<"s">>
                  ELSE DropLast(w, 3) \o <<"m","e","n">>
        ELSE IF Last(w, 5) = <<"m","o","u","s","e">> THEN DropLast(w, 5) \o <<"m","i","c","e">>
        ELSE IF Last(w, 5) = <<"l","o","u","s","e">>
             THEN IF w \in pl_sb_U_louse_lice THEN DropLast(w, 5) \o <<"l","i","c","e">>
                  ELSE w \o <<"s">>
        ELSE IF Last(w, 5) = <<"g","o","o","s","e">> THEN DropLast(w, 5) \o <<"g","e","e","s","e">>
        ELSE IF Last(w, 5) = <<"t","o","o","t","h">> THEN DropLast(w, 5) \o <<"t","e","e","t","h">>
        ELSE IF Last(w, 4) = <<"f","o","o","t">> THEN DropLast(w, 4) \o <<"f","e","e","t">>
        ELSE IF Last(w, 4) = <<"t","a","c","o">> THEN DropLast(w, 5) \o <<"t","a","c","o","s">>
        ELSE IF w = <<"d","i","e">> THEN <<"d","i","c","e">>
        \* unassimilated imports
        ELSE IF Last(w, 4) = <<"c","e","p","s">> THEN w
        ELSE IF Last(w, 4) = <<"z","o","o","n">> THEN DropLast(w, 2) \o <<"a">>
        ELSE IF Last(w, 3) \in {<<"c","i","s">>, <<"s","i","s">>, <<"x","i","s">>} THEN DropLast(w, 2) \o <<"e","s">>
        ELSE IF w[n] = "h" /\ HasSuffixIn(w, pl_sb_U_ch_chs) THEN w \o <<"s">>
        ELSE IF w[n] = "x" /\ HasSuffixIn(w, pl_sb_U_ex_ices) THEN DropLast(w, 2) \o <<"i","c","e","s">>
        ELSE IF w[n] = "x" /\ HasSuffixIn(w, pl_sb_U_ix_ices) THEN DropLast(w, 2) \o <<"i","c","e","s">>
        ELSE IF w[n] = "m" /\ HasSuffixIn(w, pl_sb_U_um_a) THEN DropLast(w, 2) \o <<"a">>
        ELSE IF w[n] = "s" /\ HasSuffixIn(w, pl_sb_U_us_i) THEN DropLast(w, 2) \o <<"i">>
        ELSE IF w[n] = "n" /\ HasSuffixIn(w, pl_sb_U_on_a) THEN DropLast(w, 2) \o <<"a">>
        ELSE IF w[n] = "a" /\ HasSuffixIn(w, pl_sb_U_a_ae) THEN w \o <<"e">>
        \* singular nouns in s and other sibilants
        ELSE IF w \in pl_sb_singular_s_complete THEN w \o <<"e","s">>
        ELSE IF HasSuffixIn(w, pl_sb_singular_s_endings) THEN w \o <<"e","s">>
        ELSE IF Last(w, 2) = <<"e","s">> /\ w[1] \notin LowerCase THEN w \o <<"e","s">>
        ELSE IF w[n] = "z" /\ HasSuffixIn(w, pl_sb_z_zes) THEN w \o <<"e","s">>
        ELSE IF w[n] = "z" /\ prev # "z" THEN w \o <<"z","e","s">>
        ELSE IF Last(w, 2) = <<"z","e">> /\ HasSuffixIn(w, pl_sb_ze_zes) THEN w \o <<"s">>
        ELSE IF Last(w, 2) \in {<<"c","h">>, <<"s","h">>, <<"z","z">>, <<"s","s">>} \/ w[n] = "x" THEN w \o <<"e","s">>
        \* -f to -ves
        ELSE IF Last(w, 3) \in {<<"e","l","f">>, <<"a","l","f">>, <<"o","l","f">>} THEN DropLast(w, 1) \o <<"v","e","s">>
        ELSE IF Last(w, 3) = <<"e","a","f">> /\ ~(n >= 4 /\ w[n - 3] = "d") THEN DropLast(w, 1) \o <<"v","e","s">>
        ELSE IF Last(w, 4) \in {<<"n","i","f","e">>, <<"l","i","f","e">>, <<"w","i","f","e">>} THEN DropLast(w, 2) \o <<"v","e","s">>
        ELSE IF Last(w, 3) = <<"a","r","f">> THEN DropLast(w, 1) \o <<"v","e","s">>
        \* -y
        ELSE IF w[n] = "y"
             THEN IF n = 1 \/ prev \in Vowels \/ w[1] \notin LowerCase THEN w \o <<"s">>
                  ELSE DropLast(w, 1) \o <<"i","e","s">>
        \* -o
        ELSE IF w \in pl_sb_U_o_os_complete THEN w \o <<"s">>
        ELSE IF HasSuffixIn(w, pl_sb_U_o_os_endings) THEN w \o <<"s">>
        ELSE IF Last(w, 2) \in {<<"a","o">>, <<"e","o">>, <<"i","o">>, <<"o","o">>, <<"u","o">>} THEN w \o <<"s">>
        ELSE IF w[n] = "o" THEN w \o <<"e","s">>
        \* otherwise
        ELSE w \o <<"s">>

\* inflect.engine().plural(word): the first of the three steps that applies;
\* onEmpty is what the installed inflect does with the empty word
plural(word, onEmpty) ==
    IF word = <<>> THEN onEmpty
    ELSE IF pl_special_adjective(word) # NoPlural THEN pl_special_adjective(word)
    ELSE IF pl_special_verb(word) # NoPlural THEN pl_special_verb(word)
    ELSE plnoun(word)

\* a plausible slip: the first segment is pluralized instead of the last
node_plural_first(node, onEmpty) ==
    IF node \in NonTextKeys THEN TypeError
    ELSE IF Contains(node, "_")
    THEN LET segs == Split(node, "_")
             first_word_plural == plural(Head(segs), onEmpty)
         IN  IF first_word_plural \in PluralErrors THEN first_word_plural
             ELSE Join(<< first_word_plural >> \o Tail(segs), "_")
    ELSE plural(node, onEmpty)

\* lines 82-88: the plural form of one node-type name, or the error that ends
\* the loop: TypeError at line 82 for a key that is not text, the
\* pluralizer's error at line 84 or 88 when it rejects the word it is given
node_plural(node, onEmpty) ==
    IF node \in NonTextKeys THEN TypeError
    ELSE IF Contains(node, "_")
    THEN LET segs == Split(node, "_")
             last_word == segs[Len(segs)]
             last_word_plural == plural(last_word, onEmpty)
             node_name_list == SubSeq(segs, 1, Len(segs) - 1) \o << last_word_plural >>
         IN  IF last_word_plural \in PluralErrors THEN last_word_plural
             ELSE Join(node_name_list, "_")
    ELSE plural(node, onEmpty)

\* a plausible slip: the placeholder entry is dropped from the table
type_mapping_short ==
    [t \in {"string", "number", "integer", "boolean", "array", "object",
            "datetime", "date"} |->
        CASE t = "string" -> "String"
          [] t = "number" -> "Float"
          [] t = "integer" -> "Int"
          [] t = "boolean" -> "Boolean"
          [] t = "array" -> "Array"
          [] t = "object" -> "Object"
          [] t = "datetime" -> "DateTime"
          [] t = "date" -> "Date"]

\* lines 92-102: the fixed type table
type_mapping ==
    [t \in {"string", "number", "integer", "boolean", "array", "object",
            "datetime", "date", "TBD"} |->
        CASE t = "string" -> "String"
          [] t = "number" -> "Float"
          [] t = "integer" -> "Int"
          [] t = "boolean" -> "Boolean"
          [] t = "array" -> "Array"
          [] t = "object" -> "Object"
          [] t = "datetime" -> "DateTime"
          [] t = "date" -> "Date"
          [] t = "TBD" -> "String"]

\* a plausible slip: the identifier field is looked up per node-type
id_field_lookup(node) == IF Contains(node, "_") THEN "id" ELSE "name"

\* line 90: the identifier field of one node-type
id_field(node) == "id"

\* lines 69-73, 78-103: the property document derived from the node-type names
return_dict_of(node_list, delimiter, domain_value, onEmpty) ==
    [Properties |->
        [domain_value       |-> domain_value,
         rel_prop_delimiter |-> "$",
         delimiter          |-> delimiter,
         plurals            |-> [node \in node_list |-> node_plural(node, onEmpty)],
         type_mapping       |-> type_mapping,
         id_fields          |-> [node \in node_list |-> id_field(node)]]]

(* ------------------------------ get_time ------------------------------- *)

Digit == <<"0", "1", "2", "3", "4", "5", "6", "7", "8", "9">>

Pad2(n) == << Digit[((n \div 10) % 10) + 1], Digit[(n % 10) + 1] >>

Pad4(n) == Pad2(n \div 100) \o Pad2(n % 100)

\* lines 28-33: strftime("%Y%m%d_T%H%M%S") of the current Eastern time
get_time(now) ==
    Pad4(now.year) \o Pad2(now.month) \o Pad2(now.day) \o <<"_", "T">>
        \o Pad2(now.hour) \o Pad2(now.minute) \o Pad2(now.second)

(* ------------------------- path construction --------------------------- *)

\* a plausible slip: the folder is used as the caller gave it
s3_folder_raw(metadata_folder) == metadata_folder

\* lines 266-270: the metadata folder always ends in one more "/" at most
s3_folder_of(metadata_folder) ==
    IF ~EndsWith(metadata_folder, "/")
    THEN metadata_folder \o <<"/">>
    ELSE metadata_folder

\* a plausible slip: the runner is used as the caller gave it
runner_raw(runner) == runner

\* lines 274-277: one trailing "/" of the runner is removed
runner_of(runner) ==
    IF EndsWith(runner, "/") THEN SubSeq(runner, 1, Len(runner) - 1) ELSE runner

\* line 273
log_folder_of(time) ==
    <<"p","r","e","f","e","c","t","_","c","3","d","c","_",
      "d","a","t","a","l","o","a","d","e","r","_">> \o time

\* line 278: s3://{s3_bucket}/{runner}/{log_folder}/logs
upload_log_dir_of(s3_bucket, runner, log_folder) ==
    <<"s","3",":","/","/">> \o s3_bucket \o <<"/">> \o runner \o <<"/">>
        \o log_folder \o <<"/","l","o","g","s">>

(* --------------------------- Config, load_data ------------------------- *)

\* a plausible slip: dry_run and wipe_db change places in the assignments
Config_swapped(dataset, uri, user, password, schemas, prop_file, bucket, s3_folder, backup_folder, cheat_mode, dry_run, wipe_db, no_backup, no_parents, verbose, yes, max_violation, mode, split_transaction, upload_log_dir, plugins, temp_folder) ==
    [dataset |-> dataset, uri |-> uri, user |-> user, password |-> password,
     schema |-> schemas, prop_file |-> prop_file, bucket |-> bucket,
     s3_folder |-> s3_folder, backup_folder |-> backup_folder,
     cheat_mode |-> cheat_mode, dry_run |-> wipe_db, wipe_db |-> dry_run,
     no_backup |-> no_backup, no_parents |-> no_parents, verbose |-> verbose,
     yes |-> yes, max_violations |-> max_violation, mode |-> mode,
     split_transactions |-> split_transaction, upload_log_dir |-> upload_log_dir,
     plugins |-> [i \in 1..Len(plugins) |-> [PluginConfig |-> plugins[i]]],
     temp_folder |-> temp_folder, config_file |-> "None"]

\* lines 169-220: Config.__init__
Config(dataset, uri, user, password, schemas, prop_file, bucket, s3_folder, backup_folder, cheat_mode, dry_run, wipe_db, no_backup, no_parents, verbose, yes, max_violation, mode, split_transaction, upload_log_dir, plugins, temp_folder) ==
    [dataset |-> dataset, uri |-> uri, user |-> user, password |-> password,
     schema |-> schemas, prop_file |-> prop_file, bucket |-> bucket,
     s3_folder |-> s3_folder, backup_folder |-> backup_folder,
     cheat_mode |-> cheat_mode, dry_run |-> dry_run, wipe_db |-> wipe_db,
     no_backup |-> no_backup, no_parents |-> no_parents, verbose |-> verbose,
     yes |-> yes, max_violations |-> max_violation, mode |-> mode,
     split_transactions |-> split_transaction, upload_log_dir |-> upload_log_dir,
     plugins |-> [i \in 1..Len(plugins) |-> [PluginConfig |-> plugins[i]]],
     temp_folder |-> temp_folder, config_file |-> "None"]

\* lines 117-140: the defaults of load_data's parameters
load_data_defaults ==
    [upload_log_dir |-> None,
     dataset |-> "data",
     temp_folder |-> "tmp",
     uri |-> <<"b","o","l","t",":","/","/","1","2","7",".","0",".","0",".","1",":","7","6","8","7">>,
     user |-> "neo4j",
     password |-> <<"1","2","3","4","5","6">>,
     schemas |-> <<"../ccdi-model/model-desc/icdc-model.yml",
                   "../ccdi-model/model-desc/icdc-model-props.yml">>,
     prop_file |-> "./icdc-dataloader/config/props-ccdi-model.yml",
     backup_folder |-> "tmp/data-loader-backups",
     cheat_mode |-> FALSE,
     dry_run |-> FALSE,
     wipe_db |-> FALSE,
     no_backup |-> TRUE,
     no_parents |-> TRUE,
     verbose |-> FALSE,
     yes |-> TRUE,
     max_violation |-> 1000000,
     mode |-> "upsert",
     split_transaction |-> FALSE,
     plugins |-> <<>>]

\* lines 142-165: the Config that load_data builds from its arguments;
\* kwargs are the arguments the caller names, the others take their defaults
load_data_params(kwargs) ==
    LET a == kwargs @@ load_data_defaults
    IN  Config(a.dataset, a.uri, a.user, a.password, a.schemas, a.prop_file,
               a.s3_bucket, a.s3_folder, a.backup_folder, a.cheat_mode,
               a.dry_run, a.wipe_db, a.no_backup, a.no_parents, a.verbose,
               a.yes, a.max_violation, a.mode, a.split_transaction,
               a.upload_log_dir, a.plugins, a.temp_folder)

(* ------------------------------ inputs --------------------------------- *)

NEO4J_URI == "neo4j_uri"
NEO4J_PASSWORD == "neo4j_password"
SUBMISSION_BUCKET == "submission_bucket"

SecretKeys == {NEO4J_URI, NEO4J_PASSWORD, SUBMISSION_BUCKET}

SecretValue(k) ==
    CASE k = NEO4J_URI -> <<"d","b">>
      [] k = NEO4J_PASSWORD -> <<"p","w">>
      [] k = SUBMISSION_BUCKET -> <<"b","k","t">>

\* what get_secret may return: a mapping holding any part of the three keys
SecretStores == { [k \in K |-> SecretValue(k)] : K \in SUBSET SecretKeys }

FolderBases == { <<>>, <<"b","1">> }

\* folder-like inputs: a base followed by up to MaxSlashes "/"
Folders == { b \o Repeat("/", k) : b \in FolderBases, k \in 0..MaxSlashes }

\* tags a caller may name (model_tag: str)
ModelTags == { <<"v","1">>, <<"v","1"," ">> }

\* what "git describe --tags --exact-match" may do: print a tag and a newline,
\* print bytes that are not UTF-8 text (check_output(text=True) then raises
\* UnicodeDecodeError), exit non-zero (no exact tag), or not run at all
GitOutcomes ==
    { [kind |-> "output", out |-> <<"v","1","\n">>],
      [kind |-> "output", out |-> <<"v","1","U+00A0","\r","\n">>],
      [kind |-> "output", out |-> <<"v","1","U+00E9","\n">>],
      [kind |-> "output", out |-> <<"U+2003","v","2","\n">>],
      [kind |-> "UnicodeDecodeError", out |-> <<>>],
      [kind |-> "CalledProcessError", out |-> <<>>],
      [kind |-> "OSError", out |-> <<>>] }

\* line 25: the values the flow's signature allows for mode
ModeDropDownChoices == {"upsert", "new", "delete"}

\* the values a caller may name for mode: the three of ModeDropDownChoices
\* and one outside it
Modes == ModeDropDownChoices \cup {"truncate"}

\* the arguments of one call of the flow; the four flags are of type
\* DropDownChoices, Literal[True, False] (line 24)
FlowArgs ==
    [metadata_folder : Folders, runner : Folders, model_tag : ModelTags,
     cheat_mode : BOOLEAN, dry_run : BOOLEAN, wipe_db : BOOLEAN,
     mode : Modes, split_transaction : BOOLEAN]

Clocks ==
    { [year |-> 2024, month |-> 3, day |-> 9, hour |-> 7, minute |-> 5, second |-> 0],
      [year |-> 2024, month |-> 11, day |-> 30, hour |-> 23, minute |-> 59, second |-> 58] }

\* keys of the "Nodes" mapping as yaml.safe_load gives them
NodeNames ==
    { YamlTrue,
      <<"d","i","a","g","n","o","s","i","s">>,
      <<"s","t","u","d","y","_","a","r","m">>,
      <<"l","a","b","_","_","s","t","a","t","u","s">>,
      <<"l","a","b","_">> }

\* the field definitions a schema gives a node-type
NodeDef(n) ==
    IF n \notin NonTextKeys /\ Contains(n, "_")
    THEN [Props |-> {"id", "name"}]
    ELSE [Props |-> {"name"}]

\* what lines 74-75 may find: no model file to open (kind "missing"), a file
\* whose bytes are not UTF-8 text (kind "undecodable"), a file
\* yaml.safe_load fails on (kind "unparsable"), an empty document (kind
\* "empty", safe_load gives None), or a
\* mapping with top-level keys `keys`; its "Nodes" entry is null, or maps up to
\* MaxNodes node-types to their definitions
ModelFiles ==
    { [kind |-> "missing", keys |-> {}, null |-> FALSE, Nodes |-> <<>>],
      [kind |-> "undecodable", keys |-> {}, null |-> FALSE, Nodes |-> <<>>],
      [kind |-> "unparsable", keys |-> {}, null |-> FALSE, Nodes |-> <<>>],
      [kind |-> "empty", keys |-> {}, null |-> FALSE, Nodes |-> <<>>],
      [kind |-> "mapping", keys |-> {"Handle"}, null |-> FALSE, Nodes |-> <<>>],
      [kind |-> "mapping", keys |-> {"Handle", "Nodes"}, null |-> TRUE, Nodes |-> <<>>] }
    \cup
    { [kind |-> "mapping", keys |-> {"Handle", "Nodes"}, null |-> FALSE,
       Nodes |-> [n \in S |-> NodeDef(n)]] :
      S \in { T \in SUBSET NodeNames : Cardinality(T) <= MaxNodes } }

PROP_FILE_NAME == "props_file.yaml"

\* a property file a previous run left behind
StaleDoc == return_dict_of({<<"s","t","u","d","y">>}, ";", <<"o","l","d">>, <<>>)

domain_value == <<"c","l","i","n","i","c","a","l","c","o","m","m","o","n","s",".",
                  "c","c","d","i",".","c","a","n","c","e","r",".","g","o","v">>

schemas == << "../c3dc-model/model-desc/c3dc-model.yml",
              "../c3dc-model/model-desc/c3dc-model-props.yml" >>

\* what main may do with the configuration: finish, or raise one of its errors
LoaderErrors == {"LoaderError: bad data", "LoaderError: no connection"}

(* ------------------------------- state --------------------------------- *)

VARIABLES
    args,                \* the arguments of the current call of the flow
    secretStore,         \* what get_secret returns for secret_name
    propFile,            \* the file props_file.yaml in the working directory
    run,                 \* the number of the current flow run
    prev,                \* <<>> or the arguments and results of the previous run
    pc,                  \* the position of the flow
    err,                 \* "None" or the exception that ended the run
    trace,               \* the steps the current run has completed, in order
    metadata_folder, runner,                 \* locals of the flow
    uri, password, s3_bucket,
    pulled_model_branch,
    s3_folder, log_folder, upload_log_dir,
    node_list,           \* the node-type names read from the model file
    return_dict,         \* <<>> or the document built by create_prop_file
    prop_file,           \* "None" or the path returned by create_prop_file
    params,              \* <<>> or the Config built by load_data
    main_calls           \* what main received: the Config and the property file it names

env == << secretStore, propFile >>
ctl == << run, prev >>
secrets == << uri, password, s3_bucket >>
paths == << metadata_folder, runner, s3_folder, log_folder, upload_log_dir >>
props == << node_list, return_dict, prop_file >>
vars == << args, secretStore, propFile, run, prev, pc, err, trace,
           metadata_folder, runner, uri, password, s3_bucket,
           pulled_model_branch, s3_folder, log_folder, upload_log_dir,
           node_list, return_dict, prop_file, params, main_calls >>

NoFile == [status |-> "absent", doc |-> <<>>, by |-> 0]

\* the locals of a flow run at its start
Entry(a) ==
    /\ args = a
    /\ metadata_folder = a.metadata_folder
    /\ runner = a.runner
    /\ uri = None /\ password = None /\ s3_bucket = None
    /\ pulled_model_branch = None
    /\ s3_folder = None /\ log_folder = None /\ upload_log_dir = None
    /\ node_list = {}
    /\ return_dict = <<>>
    /\ prop_file = "None"
    /\ params = <<>>
    /\ main_calls = <<>>
    /\ pc = "validate"
    /\ err = "None"
    /\ trace = <<>>

Init ==
    /\ \E a \in FlowArgs : Entry(a)
    /\ secretStore \in SecretStores
    /\ propFile \in { NoFile, [status |-> "written", doc |-> << StaleDoc >>, by |-> 0] }
    /\ run = 1
    /\ prev = <<>>

Fail(e) == pc' = "failed" /\ err' = e

\* the flow is entered again: its locals start afresh
Enter(a) ==
    /\ args' = a
    /\ metadata_folder' = a.metadata_folder
    /\ runner' = a.runner
    /\ uri' = None /\ password' = None /\ s3_bucket' = None
    /\ pulled_model_branch' = None
    /\ s3_folder' = None /\ log_folder' = None /\ upload_log_dir' = None
    /\ node_list' = {}
    /\ return_dict' = <<>>
    /\ prop_file' = "None"
    /\ params' = <<>>
    /\ main_calls' = <<>>
    /\ pc' = "validate"
    /\ err' = "None"
    /\ trace' = <<>>

(* --------------------------- get_git_tag ------------------------------- *)

\* a plausible slip: the output of git is returned with its newline
get_git_tag_unstripped(g) ==
    IF g.kind = "output" THEN g.out ELSE None

\* lines 36-52: the stripped output of git, or None when git exits non-zero
get_git_tag(g) ==
    IF g.kind = "output" THEN Strip(g.out) ELSE None

\* a plausible slip: a run without a resolved tag is let through
tag_matches_lenient(model_tag, pulled) == pulled = None \/ model_tag = pulled

\* line 258: exact comparison of the two tags
tag_matches(model_tag, pulled) == model_tag = pulled

(* ------------------------ c3dc_hub_data_loader ------------------------- *)

\* lines 223-233: the flow is a prefect flow whose parameters are validated
\* against the signature before the body runs (validate_parameters is left
\* on); a mode outside ModeDropDownChoices is refused and the body not entered
ValidateParameters ==
    /\ pc = "validate"
    /\ IF args.mode \in ModeDropDownChoices
       THEN pc' = "secret" /\ err' = err
       ELSE Fail("ParameterTypeError")
    /\ UNCHANGED << args, env, ctl, trace, secrets, paths, pulled_model_branch, props,
                    params, main_calls >>

\* a plausible slip: a missing key is read as None (dict.get) and the run goes on
GetSecret_lenient ==
    /\ pc = "secret"
    /\ LET get(k) == IF k \in DOMAIN secretStore THEN secretStore[k] ELSE None
       IN  /\ uri' = get(NEO4J_URI)
           /\ password' = get(NEO4J_PASSWORD)
           /\ s3_bucket' = get(SUBMISSION_BUCKET)
    /\ pc' = "version" /\ err' = err /\ trace' = Append(trace, "secret")
    /\ UNCHANGED << args, env, ctl, paths, pulled_model_branch, props, params, main_calls >>

\* lines 248-252: the secret lookup and the three subscripts, in order
GetSecret ==
    /\ pc = "secret"
    /\ LET has(k) == k \in DOMAIN secretStore
           okUri == has(NEO4J_URI)
           okPw == okUri /\ has(NEO4J_PASSWORD)
           okAll == okPw /\ has(SUBMISSION_BUCKET)
       IN  /\ uri' = IF okUri THEN secretStore[NEO4J_URI] ELSE uri
           /\ password' = IF okPw THEN secretStore[NEO4J_PASSWORD] ELSE password
           /\ s3_bucket' = IF okAll THEN secretStore[SUBMISSION_BUCKET] ELSE s3_bucket
           /\ IF okAll
              THEN pc' = "version" /\ err' = err /\ trace' = Append(trace, "secret")
              ELSE Fail("KeyError") /\ trace' = trace
    /\ UNCHANGED << args, env, ctl, paths, pulled_model_branch, props, params, main_calls >>

\* lines 254-263: the tag of the model repository is resolved and compared
VersionCheck ==
    /\ pc = "version"
    /\ \E g \in GitOutcomes :
         IF g.kind \in {"OSError", "UnicodeDecodeError"}
         THEN Fail(g.kind) /\ UNCHANGED << pulled_model_branch, trace >>
         ELSE /\ pulled_model_branch' = get_git_tag(g)
              /\ IF tag_matches(args.model_tag, pulled_model_branch')
                 THEN pc' = "paths" /\ err' = err /\ trace' = Append(trace, "version")
                 ELSE Fail("ValueError") /\ trace' = trace
    /\ UNCHANGED << args, env, ctl, secrets, paths, props, params, main_calls >>

\* lines 265-286: the storage destinations
BuildPaths ==
    /\ pc = "paths"
    /\ \E now \in Clocks :
         /\ metadata_folder' = s3_folder_of(metadata_folder)
         /\ s3_folder' = metadata_folder'
         /\ log_folder' = log_folder_of(get_time(now))
         /\ runner' = runner_of(runner)
         /\ upload_log_dir' = upload_log_dir_of(s3_bucket, runner', log_folder')
    /\ pc' = "derive"
    /\ trace' = Append(trace, "paths")
    /\ UNCHANGED << args, env, ctl, secrets, pulled_model_branch, err, props, params, main_calls >>

\* a plausible slip: the property file is opened for writing before the model
\* file is read
DeriveProps_openfirst ==
    /\ pc = "derive"
    /\ propFile' = [status |-> "empty", doc |-> <<>>, by |-> run]
    /\ \E f \in ModelFiles :
         IF \/ f.kind # "mapping" \/ "Nodes" \notin f.keys \/ f.null
            \/ \E node \in DOMAIN f.Nodes : node_plural(node, TypeCheckError) \in PluralErrors
         THEN Fail("KeyError") /\ UNCHANGED << node_list, return_dict, trace >>
         ELSE /\ node_list' = DOMAIN f.Nodes
              /\ return_dict' = << return_dict_of(node_list', ";", domain_value, <<>>) >>
              /\ pc' = "open"
              /\ err' = err
              /\ trace' = Append(trace, "derived")
    /\ UNCHANGED << args, secretStore, ctl, secrets, paths, pulled_model_branch,
                    prop_file, params, main_calls >>

\* lines 69-103 of create_prop_file, called at line 287: the model file is
\* opened, read and parsed and the property document is built; the run ends
\* here when the file cannot be opened, decoded or parsed, when it has no
\* "Nodes" mapping, when a key of that mapping is not text (line 82) or when
\* the pluralizer rejects a word (lines 84, 88). The loop takes the keys in
\* the order of the file and ends at the first that fails: any failing key
\* may be that one
DeriveProps ==
    /\ pc = "derive"
    /\ \E f \in ModelFiles :
         CASE f.kind = "missing" ->
                Fail("OSError") /\ UNCHANGED << node_list, return_dict, trace >>
           [] f.kind = "undecodable" ->
                Fail("UnicodeDecodeError") /\ UNCHANGED << node_list, return_dict, trace >>
           [] f.kind = "unparsable" ->
                Fail("YAMLError") /\ UNCHANGED << node_list, return_dict, trace >>
           [] f.kind = "empty" ->
                Fail("TypeError") /\ UNCHANGED << node_list, return_dict, trace >>
           [] f.kind = "mapping" /\ "Nodes" \notin f.keys ->
                Fail("KeyError") /\ UNCHANGED << node_list, return_dict, trace >>
           [] f.kind = "mapping" /\ "Nodes" \in f.keys /\ f.null ->
                Fail("AttributeError") /\ UNCHANGED << node_list, return_dict, trace >>
           [] OTHER ->
                /\ node_list' = DOMAIN f.Nodes
                /\ \E onEmpty \in EmptyWordOutcomes :
                     LET failing == { node \in node_list' :
                                        node_plural(node, onEmpty) \in PluralErrors }
                     IN  IF failing # {}
                         THEN /\ \E node \in failing :
                                   Fail(ErrorName(node_plural(node, onEmpty)))
                              /\ UNCHANGED << return_dict, trace >>
                         ELSE /\ return_dict' =
                                   << return_dict_of(node_list', ";", domain_value, onEmpty) >>
                              /\ pc' = "open"
                              /\ err' = err
                              /\ trace' = Append(trace, "derived")
    /\ UNCHANGED << args, env, ctl, secrets, paths, pulled_model_branch, prop_file,
                    params, main_calls >>

\* line 105: open(prop_file_name, "w") empties the file, or raises OSError
\* (the path is a directory, or may not be written) and leaves it
OpenPropFile ==
    /\ pc = "open"
    /\ \/ /\ propFile' = [status |-> "empty", doc |-> <<>>, by |-> run]
          /\ pc' = "dump"
          /\ err' = err
          /\ trace' = Append(trace, "prop_open")
       \/ /\ Fail("OSError")
          /\ UNCHANGED << propFile, trace >>
    /\ UNCHANGED << args, secretStore, ctl, secrets, paths, pulled_model_branch,
                    props, params, main_calls >>

\* a plausible slip: the path is returned but the document never reaches the file
DumpPropFile_lost ==
    /\ pc = "dump"
    /\ prop_file' = PROP_FILE_NAME
    /\ pc' = "config"
    /\ trace' = Append(trace, "prop_written")
    /\ UNCHANGED << args, env, ctl, secrets, paths, pulled_model_branch, err,
                    node_list, return_dict, params, main_calls >>

\* lines 106-114: the document is dumped, the file closed, read back, printed
\* and its path returned to the flow; a write that raises OSError leaves the
\* file empty or with a part of the document, a read-back that raises OSError
\* leaves it whole, and in both cases no path is returned
DumpPropFile ==
    /\ pc = "dump"
    /\ \/ /\ propFile' = [status |-> "written", doc |-> return_dict, by |-> run]
          /\ prop_file' = PROP_FILE_NAME
          /\ pc' = "config"
          /\ err' = err
          /\ trace' = Append(trace, "prop_written")
       \/ /\ \E st \in {"empty", "partial"} :
               propFile' = [status |-> st, doc |-> <<>>, by |-> run]
          /\ Fail("OSError")
          /\ UNCHANGED << prop_file, trace >>
       \/ /\ propFile' = [status |-> "written", doc |-> return_dict, by |-> run]
          /\ Fail("OSError")
          /\ UNCHANGED << prop_file, trace >>
    /\ UNCHANGED << args, secretStore, ctl, secrets, paths, pulled_model_branch,
                    node_list, return_dict, params, main_calls >>

\* lines 291-310 and 142-165: load_data is called and builds the Config
BuildConfig ==
    /\ pc = "config"
    /\ params' = << load_data_params(
                      [s3_bucket |-> s3_bucket,
                       s3_folder |-> s3_folder,
                       upload_log_dir |-> upload_log_dir,
                       dataset |-> "data",
                       temp_folder |-> "tmp",
                       uri |-> uri,
                       password |-> password,
                       schemas |-> schemas,
                       prop_file |-> prop_file,
                       cheat_mode |-> args.cheat_mode,
                       dry_run |-> args.dry_run,
                       wipe_db |-> args.wipe_db,
                       no_backup |-> TRUE,
                       yes |-> TRUE,
                       max_violation |-> 1000000,
                       mode |-> args.mode,
                       split_transaction |-> args.split_transaction,
                       plugins |-> <<>>]) >>
    /\ pc' = "main"
    /\ trace' = Append(trace, "config")
    /\ UNCHANGED << args, env, ctl, secrets, paths, pulled_model_branch, err, props,
                    main_calls >>

\* a plausible slip: a failed load is tried once more
CallMain_retry ==
    /\ pc = "main"
    /\ trace' = Append(trace, "main")
    /\ \E raised \in LoaderErrors \cup {"None"} :
         /\ main_calls' = Append(main_calls,
                [params |-> params[1], prop |-> propFile, raised |-> raised])
         /\ IF raised = "None"
            THEN pc' = "report" /\ err' = err
            ELSE IF Len(main_calls) = 0
                 THEN pc' = pc /\ err' = err
                 ELSE Fail(raised)
    /\ UNCHANGED << args, env, ctl, secrets, paths, pulled_model_branch, props, params >>

\* line 166: main(params); the loader reads the property file the Config names
CallMain ==
    /\ pc = "main"
    /\ trace' = Append(trace, "main")
    /\ \E raised \in LoaderErrors \cup {"None"} :
         /\ main_calls' = Append(main_calls,
                [params |-> params[1], prop |-> propFile, raised |-> raised])
         /\ IF raised = "None"
            THEN pc' = "report" /\ err' = err
            ELSE Fail(raised)
    /\ UNCHANGED << args, env, ctl, secrets, paths, pulled_model_branch, props, params >>

\* lines 311-313: the log location is printed and the flow returns
Report ==
    /\ pc = "report"
    /\ pc' = "done"
    /\ trace' = Append(trace, "report")
    /\ UNCHANGED << args, env, ctl, secrets, paths, pulled_model_branch, err, props,
                    params, main_calls >>

\* the flow is called again after a completed run; the caller names the same
\* two folders, each written with any number of trailing "/", and changes
\* nothing else
Rerun ==
    /\ pc = "done"
    /\ run = 1
    /\ run' = 2
    /\ prev' = << [args |-> args, log_folder |-> log_folder, params |-> params[1]] >>
    /\ \E a \in FlowArgs :
         /\ a = [args EXCEPT !.metadata_folder = a.metadata_folder,
                             !.runner = a.runner]
         /\ \E b \in FolderBases, j, k \in 0..MaxSlashes :
              /\ args.metadata_folder = b \o Repeat("/", j)
              /\ a.metadata_folder = b \o Repeat("/", k)
         /\ \E b \in FolderBases, j, k \in 0..MaxSlashes :
              /\ args.runner = b \o Repeat("/", j)
              /\ a.runner = b \o Repeat("/", k)
         /\ Enter(a)
    /\ UNCHANGED env

Next ==
    \/ ValidateParameters
    \/ GetSecret
    \/ VersionCheck
    \/ BuildPaths
    \/ DeriveProps
    \/ OpenPropFile
    \/ DumpPropFile
    \/ BuildConfig
    \/ CallMain
    \/ Report

Spec == Init /\ [][Next]_vars

\* two runs in a row: the first with every flag off on a clean directory
InitTwin ==
    /\ Init
    /\ ~args.cheat_mode /\ ~args.dry_run /\ ~args.wipe_db /\ ~args.split_transaction
    /\ args.mode = "upsert"
    /\ propFile = NoFile

NextTwin == Next \/ Rerun

SpecTwin == InitTwin /\ [][NextTwin]_vars

TypeOK == pc \in {"validate", "secret", "version", "paths", "derive", "open", "dump", "config",
                  "main", "report", "done", "failed"}

(* ------------------------------ properties ----------------------------- *)

Has(t, e) == \E i \in 1..Len(t) : t[i] = e

Count(t, e) == Cardinality({ i \in 1..Len(t) : t[i] = e })

Pos(t, e) == CHOOSE i \in 1..Len(t) : t[i] = e

\* the property file has not been touched by the current run
FileUntouched == propFile.by # run /\ propFile.status # "empty"

\* the run ended inside get_git_tag with an error it does not catch: git
\* could not be run, or its output could not be decoded; no tag was resolved
GitNotRun ==
    pc = "failed" /\ err \in {"OSError", "UnicodeDecodeError"} /\ trace = << "secret" >>

\* the version check has been passed over: the secret stage succeeded, the
\* flow is no longer at the check, and get_git_tag returned
PastVersionCheck == Has(trace, "secret") /\ pc # "version" /\ ~GitNotRun

\* C1: whenever the resolved tag is None or differs from model_tag, the run
\* has ended with the version check's error, the property file has not been
\* touched and main has not been called
VersionGuardAborts ==
    (PastVersionCheck
       /\ (pulled_model_branch = None \/ pulled_model_branch # args.model_tag))
    => /\ pc = "failed" /\ err = "ValueError"
       /\ ~Has(trace, "version")
       /\ FileUntouched /\ return_dict = <<>> /\ prop_file = "None"
       /\ params = <<>> /\ main_calls = <<>>

VersionGuardAbortsWitness ==
    /\ pc = "failed" /\ err = "ValueError"
    /\ pulled_model_branch = None
    /\ propFile.status = "written"

\* C2: main is called at most once; exactly once in a finished run whose
\* secret lookup, version check and property derivation succeeded; an error
\* raised by main ends the run as that same error, without a second call and
\* without the log-location message; the message follows a call of main that
\* raised nothing
LoaderCalledOnce ==
    /\ Len(main_calls) <= 1
    /\ Count(trace, "main") = Len(main_calls)
    /\ (pc \in {"done", "failed"} /\ Has(trace, "prop_written")) => Len(main_calls) = 1
    /\ (Len(main_calls) = 1 /\ main_calls[1].raised # "None")
         => /\ pc = "failed" /\ err = main_calls[1].raised
            /\ ~Has(trace, "report")
    /\ err \in LoaderErrors => (Len(main_calls) = 1 /\ main_calls[1].raised = err)
    /\ Has(trace, "report")
         => /\ Len(main_calls) = 1 /\ main_calls[1].raised = "None"
            /\ Pos(trace, "main") < Pos(trace, "report")
            /\ err = "None"

LoaderCalledOnceWitness ==
    /\ pc = "failed" /\ err \in LoaderErrors
    /\ Len(main_calls) = 1

\* the index of the last "_" of a name
LastSep(n) == CHOOSE i \in 1..Len(n) : n[i] = "_" /\ \A j \in (i + 1)..Len(n) : n[j] # "_"

\* the plural form the rule gives: everything up to and including the last
\* "_" unchanged, then the plural of what follows it (the plural of the
\* empty word being the empty word)
ExpectedPlural(n) ==
    IF \E i \in 1..Len(n) : n[i] = "_"
    THEN SubSeq(n, 1, LastSep(n)) \o plural(SubSeq(n, LastSep(n) + 1, Len(n)), <<>>)
    ELSE plural(n, <<>>)

\* the word the rule hands to the pluralizer: what follows the last "_", or
\* the whole name
FinalSegment(n) ==
    IF \E i \in 1..Len(n) : n[i] = "_" THEN SubSeq(n, LastSep(n) + 1, Len(n)) ELSE n

\* C3: for every schema and every node-type name n of it, create_prop_file
\* sets plurals[n]: a name with "_" has only its final segment pluralized,
\* another name is pluralized whole, and the keys of plurals are exactly the
\* schema's node-type names. Once the names of a schema have been read, the
\* document with these plurals exists
PluralsForEveryName ==
    node_list # {} =>
      /\ return_dict # <<>>
      /\ LET plurals == return_dict[1].Properties.plurals
         IN  /\ DOMAIN plurals = node_list
             /\ \A n \in node_list : plurals[n] = ExpectedPlural(n)

\* C3, what lines 77-91 do: a run that builds the document gives it the
\* plurals of the rule for exactly the names read; the loop ends without a
\* document at a key that is not text (TypeError) and, when the installed
\* pluralizer rejects the empty word, at a name whose final segment is empty
PluralsRule ==
    /\ (pc = "failed" /\ err \in {"TypeCheckError", "ValidationError"})
         => /\ \E n \in node_list : FinalSegment(n) = <<>>
            /\ return_dict = <<>>
    /\ (pc = "failed" /\ err = "TypeError" /\ node_list # {})
         => /\ node_list \cap NonTextKeys # {}
            /\ return_dict = <<>>
    /\ Has(trace, "derived")
         => /\ return_dict # <<>>
            /\ node_list \cap NonTextKeys = {}
    /\ return_dict # <<>> =>
      LET plurals == return_dict[1].Properties.plurals
          has(n) == n \in DOMAIN plurals
      IN  /\ DOMAIN plurals = node_list
          /\ \A n \in node_list : plurals[n] = ExpectedPlural(n)
          /\ has(<<"l","a","b","_","_","s","t","a","t","u","s">>)
               => plurals[<<"l","a","b","_","_","s","t","a","t","u","s">>]
                    = <<"l","a","b","_","_","s","t","a","t","u","s","e","s">>
          /\ has(<<"l","a","b","_">>)
               => plurals[<<"l","a","b","_">>] = <<"l","a","b","_">>
          /\ has(<<"s","t","u","d","y","_","a","r","m">>)
               => plurals[<<"s","t","u","d","y","_","a","r","m">>]
                    = <<"s","t","u","d","y","_","a","r","m","s">>
          /\ has(<<"d","i","a","g","n","o","s","i","s">>)
               => plurals[<<"d","i","a","g","n","o","s","i","s">>]
                    = <<"d","i","a","g","n","o","s","e","s">>
          /\ (propFile.by = run /\ propFile.status = "written")
               => propFile.doc[1].Properties.plurals = plurals

PluralsRuleWitness ==
    /\ propFile.by = run /\ propFile.status = "written"
    /\ <<"s","t","u","d","y","_","a","r","m">> \in node_list
    /\ <<"d","i","a","g","n","o","s","i","s">> \in node_list

\* C4: the id_fields map has exactly the schema's node-type names as keys and
\* maps each of them to "id", whatever fields the node-type declares
IdFieldsFixed ==
    return_dict # <<>> =>
      LET id_fields == return_dict[1].Properties.id_fields
      IN  /\ DOMAIN id_fields = node_list
          /\ \A n \in node_list : id_fields[n] = "id"
          /\ (propFile.by = run /\ propFile.status = "written")
               => propFile.doc[1].Properties.id_fields = id_fields

IdFieldsFixedWitness ==
    /\ propFile.by = run /\ propFile.status = "written"
    /\ \E n \in node_list : "id" \notin NodeDef(n).Props
    /\ \E n \in node_list : "id" \in NodeDef(n).Props

\* C5 as stated: the table has an entry for each of string, number, integer,
\* boolean, array, object, datetime, date and unknown, and the placeholder
\* tag maps to "String"
TypeMappingNineTags ==
    return_dict # <<>> =>
      LET tm == return_dict[1].Properties.type_mapping
      IN  /\ {"string", "number", "integer", "boolean", "array", "object",
              "datetime", "date", "unknown"} \subseteq DOMAIN tm
          /\ tm["unknown"] = "String"

\* C5, amended: the table has exactly nine entries, for string, number,
\* integer, boolean, array, object, datetime, date and the placeholder tag
\* TBD; each maps to one native type name and TBD maps to "String"
TypeMappingTable ==
    return_dict # <<>> =>
      LET tm == return_dict[1].Properties.type_mapping
      IN  /\ DOMAIN tm = {"string", "number", "integer", "boolean", "array",
                          "object", "datetime", "date", "TBD"}
          /\ Cardinality(DOMAIN tm) = 9
          /\ \A t \in DOMAIN tm :
               tm[t] \in {"String", "Float", "Int", "Boolean", "Array", "Object",
                          "DateTime", "Date"}
          /\ tm["TBD"] = "String" /\ tm["string"] = "String"
          /\ (propFile.by = run /\ propFile.status = "written")
               => propFile.doc[1].Properties.type_mapping = tm

TypeMappingTableWitness ==
    /\ propFile.by = run /\ propFile.status = "written"
    /\ Cardinality(node_list) = MaxNodes

\* a folder value without its one trailing "/", if it has one
Base(f) == IF EndsWith(f, "/") THEN SubSeq(f, 1, Len(f) - 1) ELSE f

\* x and y are f and f + "/" (in any order, or equal) for an f without trailing "/"
Twins(x, y) == Base(x) = Base(y) /\ ~EndsWith(Base(x), "/")

\* C6: two runs whose folder-like arguments differ only by one trailing "/",
\* with all else and the timestamp equal, hand main the same s3_folder and
\* the same upload_log_dir, of the form s3://{bucket}/{runner}/{log_folder}/logs
TwinFoldersSameDestinations ==
    (/\ prev # <<>> /\ params # <<>>
     /\ Twins(prev[1].args.metadata_folder, args.metadata_folder)
     /\ Twins(prev[1].args.runner, args.runner)
     /\ prev[1].log_folder = log_folder)
    => /\ params[1].s3_folder = prev[1].params.s3_folder
       /\ params[1].upload_log_dir = prev[1].params.upload_log_dir
       /\ params[1].upload_log_dir =
            <<"s","3",":","/","/">> \o params[1].bucket \o <<"/">>
              \o Base(args.runner) \o <<"/">> \o log_folder \o <<"/","l","o","g","s">>
       /\ \A i \in 1..Len(main_calls) :
            /\ main_calls[i].params.s3_folder = prev[1].params.s3_folder
            /\ main_calls[i].params.upload_log_dir = prev[1].params.upload_log_dir

TwinFoldersSameDestinationsWitness ==
    /\ prev # <<>> /\ main_calls # <<>>
    /\ prev[1].log_folder = log_folder
    /\ prev[1].args.runner = <<"b","1">> /\ args.runner = <<"b","1","/">>
    /\ prev[1].args.metadata_folder = <<"b","1","/">> /\ args.metadata_folder = <<"b","1">>

\* the Config that main receives carries the caller's cheat_mode, dry_run,
\* wipe_db, mode and split_transaction as given, and each other field equals
\* the load_data argument of the same name
ConfigAsGiven ==
    /\ params # <<>> =>
         LET c == params[1]
         IN  /\ c.cheat_mode = args.cheat_mode
             /\ c.dry_run = args.dry_run
             /\ c.wipe_db = args.wipe_db
             /\ c.mode = args.mode
             /\ c.split_transactions = args.split_transaction
             /\ c.dataset = "data"
             /\ c.uri = uri /\ c.uri = secretStore[NEO4J_URI]
             /\ c.user = "neo4j"
             /\ c.password = password /\ c.password = secretStore[NEO4J_PASSWORD]
             /\ c.schema = schemas
             /\ c.prop_file = prop_file
             /\ c.bucket = s3_bucket /\ c.bucket = secretStore[SUBMISSION_BUCKET]
             /\ c.s3_folder = s3_folder
             /\ c.backup_folder = "tmp/data-loader-backups"
             /\ c.no_backup = TRUE /\ c.no_parents = TRUE
             /\ c.verbose = FALSE /\ c.yes = TRUE
             /\ c.max_violations = 1000000
             /\ c.upload_log_dir = upload_log_dir
             /\ c.plugins = <<>>
             /\ c.temp_folder = "tmp"
    /\ \A i \in 1..Len(main_calls) : main_calls[i].params = params[1]

\* the flow refused the call for its parameters, before its body
ParametersRefused == pc = "failed" /\ err = "ParameterTypeError"

\* C7 as stated: for every combination of the five values, a mode outside the
\* enumeration included, the Config that main receives carries them as given;
\* the flow validates none of them, so that no run is refused for its mode
FlagsVerbatimAnyMode ==
    /\ ConfigAsGiven
    /\ ~ParametersRefused

\* C7, amended: for every combination of the five values with mode one of
\* upsert, new and delete, the Config that main receives carries them as
\* given, the body of the flow, load_data and Config validate and rewrite
\* none of them, and each other field equals the load_data argument of the
\* same name; a mode outside the enumeration is refused by the flow before
\* its body: no secret lookup, no property file, no Config, no call of main
FlagsVerbatim ==
    /\ ConfigAsGiven
    /\ ParametersRefused <=> (pc = "failed" /\ args.mode \notin ModeDropDownChoices)
    /\ args.mode \notin ModeDropDownChoices
         => /\ pc \in {"validate", "failed"}
            /\ trace = <<>>
            /\ uri = None /\ pulled_model_branch = None
            /\ FileUntouched /\ return_dict = <<>> /\ prop_file = "None"
            /\ params = <<>> /\ main_calls = <<>>
    /\ (args.mode \in ModeDropDownChoices /\ pc = "failed")
         => err # "ParameterTypeError"

FlagsVerbatimWitness ==
    /\ main_calls # <<>>
    /\ args.mode = "delete"
    /\ main_calls[1].params.mode = "delete"
    /\ args.dry_run /\ ~args.wipe_db /\ args.cheat_mode /\ ~args.split_transaction

\* C8: when the mapping returned by the secret lookup lacks one of the three
\* keys, the run ends at the secret stage: no version check, no property
\* file, no call of main
MissingSecretKeyStops ==
    (/\ ~(SecretKeys \subseteq DOMAIN secretStore)
     /\ pc \notin {"validate", "secret"}
     /\ ~ParametersRefused)
    => /\ pc = "failed" /\ err = "KeyError"
       /\ trace = <<>>
       /\ pulled_model_branch = None
       /\ FileUntouched /\ return_dict = <<>> /\ prop_file = "None"
       /\ params = <<>> /\ main_calls = <<>>

MissingSecretKeyStopsWitness ==
    /\ pc = "failed" /\ err = "KeyError"
    /\ DOMAIN secretStore = {NEO4J_URI, NEO4J_PASSWORD}
    /\ password # None /\ s3_bucket = None

\* the run has failed inside create_prop_file at lines 74-77, while the model
\* file was opened, read and parsed and its "Nodes" taken: the destinations
\* exist, no node-type name has been read and no document derived
FailedReadingModel ==
    /\ pc = "failed"
    /\ Has(trace, "paths") /\ ~Has(trace, "derived")
    /\ node_list = {}
    /\ err \in {"OSError", "UnicodeDecodeError", "YAMLError", "TypeError", "KeyError",
               "AttributeError"}

\* the run has failed at lines 105-106, while the property file was opened or
\* written
FailedWritingPropFile ==
    pc = "failed" /\ Has(trace, "derived") /\ ~Has(trace, "prop_written")

\* C9: when the model file cannot be parsed or has no "Nodes" collection,
\* create_prop_file fails before opening the property file: the file is as it
\* was, no path is returned and main is not called. A run that derived the
\* document and failed at the property file is another failure: it alone may
\* leave the file changed
BadModelLeavesFile ==
    /\ [][(pc = "derive" /\ pc' = "failed") => propFile' = propFile]_vars
    /\ []((pc = "failed" /\ ~Has(trace, "prop_written") /\ ~FileUntouched)
            => (FailedWritingPropFile /\ ~FailedReadingModel))
    /\ [](FailedReadingModel
            => /\ FileUntouched
               /\ ~Has(trace, "prop_open") /\ ~Has(trace, "prop_written")
               /\ return_dict = <<>> /\ prop_file = "None"
               /\ params = <<>> /\ main_calls = <<>>)

BadModelLeavesFileWitness ==
    /\ FailedReadingModel
    /\ err = "KeyError"
    /\ propFile.status = "written"

FlowOrder == << "secret", "version", "prop_open", "prop_written", "config", "main" >>

\* C10: a run that reaches main has done the secret lookup, the version
\* check, the property-file write, the Config construction and the call of
\* main once each and in that order; the file the Config names was written to
\* completion in this run, once, and is not written after the Config exists
PropFileFreshAtLoad ==
    /\ [][params # <<>> => propFile' = propFile]_vars
    /\ [](main_calls # <<>>
            => /\ \A i \in 1..Len(FlowOrder) : Count(trace, FlowOrder[i]) = 1
               /\ \A i \in 1..(Len(FlowOrder) - 1) :
                    Pos(trace, FlowOrder[i]) < Pos(trace, FlowOrder[i + 1])
               /\ main_calls[1].params.prop_file = PROP_FILE_NAME
               /\ main_calls[1].prop.status = "written"
               /\ main_calls[1].prop.by = run
               /\ main_calls[1].prop.doc = return_dict
               /\ propFile = main_calls[1].prop)

PropFileFreshAtLoadWitness ==
    /\ pc = "done"
    /\ main_calls # <<>>
    /\ main_calls[1].prop.doc # << StaleDoc >>

====
